---- MODULE Spec2Model ----
(***************************************************************************)
(* Model of v2/document.go of the license classifier: the Dictionary that  *)
(* interns token words, the construction of IndexedDocuments in grow and   *)
(* resolve mode, the normalized text, the threshold-to-q policy and the    *)
(* classifier's document registry.                                         *)
(*                                                                         *)
(* Strings are sequences of one-character strings, so that concatenation,  *)
(* separators and composite keys are computed and not assumed.  A Go       *)
(* pointer is nil or Ptr(x).  A Go map is a function on the set of its     *)
(* keys.                                                                   *)
(***************************************************************************)
EXTENDS Integers, Sequences, FiniteSets, TLC

VARIABLES
    Dict,       \* c.Dict: the Dictionary, a record of the maps Words and Indices
    Docs,       \* c.Docs: map from document name to *IndexedDocument
    Q,          \* c.Q: the q of the session, fixed at construction
    ret,        \* the last call: its name, its arguments and what it returned
    firstSeen,  \* history: the distinct words passed to add in first-call order,
                \* each with the identifier that call returned
    nops,       \* history: number of calls made so far
    calls,      \* the calls of add in progress on concurrent writers: where each
                \* is in the body of add, its word and its local idx
    built       \* history: the IndexedDocuments a caller has kept, each with the
                \* Document and the mode it was built from and the dictionary
                \* its construction left

vars == <<Dict, Docs, Q, ret, firstSeen, nops, calls, built>>

-----------------------------------------------------------------------------
(* Bounds and input sets *)

MaxDocLen == 2
MaxOps == 2
MaxWriters == 2
MaxBuilt == 2

\* Token texts the tokenizer hands over: non-empty words without white space.
TokenTexts == { <<"a">>, <<"b">>, <<"c", "d">> }

\* (category, name, variant) triples callers pass; the second holds the path
\* separator inside its category.
Triples ==
    { << <<"l">>, <<"m">>, << >> >>,
      << <<"l", "/", "m">>, << >>, << >> >> }

\* The documents of the end-to-end scenario: up to ScenarioLen of the words
\* a, b, c, and the triple ("lic", "mit", "") they are stored under.
ScenarioLen == 3
ScenarioTexts == { <<"a">>, <<"b">>, <<"c">> }
ScenarioTriple == << <<"l", "i", "c">>, <<"m", "i", "t">>, << >> >>

\* The words of the documents a caller keeps.
KeptTexts == { <<"a">>, <<"b">> }

\* Triples of a registry whose callers put the path separator into category
\* and name.
RegistryTriples ==
    { << <<"l", "/", "m">>, << >>, << >> >>,
      << <<"l">>, <<"m", "/">>, << >> >>,
      << <<"l">>, <<"m">>, << >> >>,
      << <<"l">>, << >>, <<"m">> >> }

\* Thresholds a session can be opened with: the tenths, and the fractions
\* n / ThresholdDen.
ThresholdDen == 100
Thresholds ==
    UNION { { [num |-> n, den |-> d] : n \in 1..d } : d \in {10, ThresholdDen} }

\* The similarity threshold the session was configured with: the constant 0.8.
SessionThreshold == [num |-> 4, den |-> 5]

-----------------------------------------------------------------------------
(* Pointers and maps *)

nil == << >>
Ptr(x) == << x >>
Deref(p) == p[1]

EmptyMap == << >>
MapPut(m, k, v) == [x \in (DOMAIN m) \cup {k} |-> IF x = k THEN v ELSE m[x]]

RECURSIVE Concat(_)
Concat(ss) == IF ss = << >> THEN << >> ELSE Head(ss) \o Concat(Tail(ss))

-----------------------------------------------------------------------------
(* Dictionary *)

unknownWord == <<"U", "N", "K", "N", "O", "W", "N">>
unknownIndex == 0

newDictionary == [Words |-> EmptyMap, Indices |-> EmptyMap]

getIndex(d, word) ==
    IF word \in DOMAIN d.Indices THEN d.Indices[word] ELSE unknownIndex

\* getWord returning the zero value of the failed map read.
getWord_zeroValue(d, index) ==
    IF index \in DOMAIN d.Words THEN d.Words[index] ELSE << >>

getWord(d, index) ==
    IF index \in DOMAIN d.Words THEN d.Words[index] ELSE unknownWord

\* add with the "+ 1" of the new identifier left out.
add_fromZero(d, word) ==
    IF getIndex(d, word) # unknownIndex
    THEN [idx |-> getIndex(d, word), dict |-> d]
    ELSE LET idx == Cardinality(DOMAIN d.Words)
         IN  [idx |-> idx,
              dict |-> [Words |-> MapPut(d.Words, idx, word),
                        Indices |-> MapPut(d.Indices, word, idx)]]

\* add recording the new word in Words only.
add_forgetIndices(d, word) ==
    IF getIndex(d, word) # unknownIndex
    THEN [idx |-> getIndex(d, word), dict |-> d]
    ELSE LET idx == Cardinality(DOMAIN d.Words) + 1
         IN  [idx |-> idx,
              dict |-> [Words |-> MapPut(d.Words, idx, word),
                        Indices |-> d.Indices]]

\* add without the lookup of the word: every call allocates.
add_noLookup(d, word) ==
    LET idx == Cardinality(DOMAIN d.Words) + 1
    IN  [idx |-> idx,
         dict |-> [Words |-> MapPut(d.Words, idx, word),
                   Indices |-> MapPut(d.Indices, word, idx)]]

\* add returns the identifier and the dictionary it leaves behind.
add(d, word) ==
    IF getIndex(d, word) # unknownIndex
    THEN [idx |-> getIndex(d, word), dict |-> d]
    ELSE LET idx == Cardinality(DOMAIN d.Words) + 1
         IN  [idx |-> idx,
              dict |-> [Words |-> MapPut(d.Words, idx, word),
                        Indices |-> MapPut(d.Indices, word, idx)]]

\* History of the calls of add: word is recorded, with the identifier idx the
\* call returned, when no earlier call was made for it.
Seen(seq, word, idx) ==
    IF \E i \in 1..Len(seq) : seq[i].word = word
    THEN seq
    ELSE Append(seq, [word |-> word, idx |-> idx])

\* Concurrent writers calling add, each at one of the statements of its body.
Writers == 1..MaxWriters

NoCalls ==
    [of |-> [w \in Writers |-> [pc |-> "idle", word |-> << >>, idx |-> unknownIndex]],
     interleaved |-> FALSE,
     fault |-> FALSE]

\* A call is in the body of add, past the lookup and before the return.
InBody(c) == c.pc \in {"len", "words", "indices"}

\* add taking the identifier 1 for every new word.
addLen_first(d) == 1

\* idx := tokenID(len(d.Words) + 1)
addLen(d) == Cardinality(DOMAIN d.Words) + 1

\* d.Words[idx] = word
addWordsEntry(d, idx, word) == [d EXCEPT !.Words = MapPut(d.Words, idx, word)]

\* d.Indices[word] = idx
addIndicesEntry(d, idx, word) == [d EXCEPT !.Indices = MapPut(d.Indices, word, idx)]

-----------------------------------------------------------------------------
(* Threshold-to-q policy *)

max(a, b) == IF a > b THEN a ELSE b

QAtOne == 10

\* A float64 has a significand of 53 bits.
FloatBits == 53

\* The value of x, computed once.
Value(x) == CHOOSE v \in {x} : TRUE

\* Natural numbers of any size, as sequences of bits, most significant first.
Zeros(n) == [i \in 1..n |-> 0]
PadTo(a, n) == Zeros(n - Len(a)) \o a

RECURSIVE StripZeros(_)
StripZeros(a) == IF a # << >> /\ a[1] = 0 THEN StripZeros(Tail(a)) ELSE a

RECURSIVE BitsToInt(_)
BitsToInt(a) ==
    IF a = << >> THEN 0 ELSE 2 * BitsToInt(SubSeq(a, 1, Len(a) - 1)) + a[Len(a)]

\* a >= b, for a and b of the same length.
BitsGeq(a, b) ==
    \/ a = b
    \/ \E i \in 1..Len(a) :
          /\ a[i] = 1 /\ b[i] = 0
          /\ \A j \in 1..(i - 1) : a[j] = b[j]

\* The bits lo..hi of a - b, for a and b of the same length, with a borrow
\* bor out of the bits below hi, and the borrow they ask of the bits above.
RECURSIVE BitsSubRange(_, _, _, _, _)
BitsSubRange(a, b, lo, hi, bor) ==
    IF lo = hi
    THEN IF a[lo] - b[lo] - bor < 0
         THEN [bits |-> << a[lo] - b[lo] - bor + 2 >>, bor |-> 1]
         ELSE [bits |-> << a[lo] - b[lo] - bor >>, bor |-> 0]
    ELSE LET mid == (lo + hi) \div 2
         IN  CHOOSE res \in UNION {
                 { [bits |-> high.bits \o low.bits, bor |-> high.bor] :
                       high \in { BitsSubRange(a, b, lo, mid, low.bor) } } :
                 low \in { BitsSubRange(a, b, mid + 1, hi, bor) } } : TRUE

\* a - b, for a >= b of the same length.
BitsSub(a, b) == BitsSubRange(a, b, 1, Len(a), 0).bits

\* a + 1: one bit longer when a is all ones.
BitsInc(a) ==
    IF \A i \in 1..Len(a) : a[i] = 1
    THEN <<1>> \o Zeros(Len(a))
    ELSE [i \in 1..Len(a) |->
             IF \A j \in (i + 1)..Len(a) : a[j] = 1 THEN 1 - a[i] ELSE a[i]]

\* One step of the long division of a by b > 0: st.r is the remainder so far,
\* one bit longer than b, st.q the quotient so far, and bit i of a comes next.
BitsDivStep(a, b, i, st) ==
    LET r2 == Value(Tail(st.r) \o << a[i] >>)
    IN  IF BitsGeq(r2, <<0>> \o b)
        THEN [r |-> BitsSub(r2, <<0>> \o b), q |-> Append(st.q, 1)]
        ELSE [r |-> r2, q |-> Append(st.q, 0)]

\* The steps for the bits lo..hi of a.
RECURSIVE BitsDivRange(_, _, _, _, _)
BitsDivRange(a, b, lo, hi, st) ==
    IF lo > hi THEN st
    ELSE IF lo = hi THEN BitsDivStep(a, b, lo, st)
    ELSE LET mid == (lo + hi) \div 2
         IN  CHOOSE res \in { BitsDivRange(a, b, mid + 1, hi, s1) :
                                 s1 \in { BitsDivRange(a, b, lo, mid, st) } } : TRUE

\* Quotient q and remainder r of a by b > 0.
BitsDiv(a, b) ==
    BitsDivRange(Value(a), Value(b), 1, Len(a), [r |-> Zeros(Len(b) + 1), q |-> << >>])

\* A positive float64 is m * 2^e with m of FloatBits bits, its first bit 1.
\* Float64Round rounds the number n * 2^e, n # 0, to the nearest float64,
\* ties to the even significand.
Float64Round(n, e) ==
    LET s == Value(StripZeros(n))
        L == Len(s)
    IN  IF L <= FloatBits
        THEN [m |-> s \o Zeros(FloatBits - L), e |-> e - (FloatBits - L)]
        ELSE LET top == SubSeq(s, 1, FloatBits)
                 up == /\ s[FloatBits + 1] = 1
                       /\ \/ top[FloatBits] = 1
                          \/ \E i \in (FloatBits + 2)..L : s[i] = 1
                 r == IF up THEN BitsInc(top) ELSE top
             IN  IF Len(r) > FloatBits
                 THEN [m |-> SubSeq(r, 1, FloatBits), e |-> e + (L - FloatBits) + 1]
                 ELSE [m |-> r, e |-> e + (L - FloatBits)]

Float64One == [m |-> <<1>> \o Zeros(FloatBits - 1), e |-> 1 - FloatBits]

\* The first k bits of the binary expansion of r / den, for r < den, and what
\* is left of r after them.
RECURSIVE DecimalBits(_, _, _)
DecimalBits(r, den, k) ==
    IF k = 0
    THEN << >>
    ELSE IF 2 * r >= den
         THEN <<1>> \o DecimalBits(2 * r - den, den, k - 1)
         ELSE <<0>> \o DecimalBits(2 * r, den, k - 1)

RECURSIVE DecimalRest(_, _, _)
DecimalRest(r, den, k) ==
    IF k = 0
    THEN r
    ELSE IF 2 * r >= den
         THEN DecimalRest(2 * r - den, den, k - 1)
         ELSE DecimalRest(2 * r, den, k - 1)

RECURSIVE LeadingZeros(_, _)
LeadingZeros(r, den) == IF 2 * r >= den THEN 0 ELSE 1 + LeadingZeros(2 * r, den)

\* The float64 a constant d.num / d.den, 0 < d.num <= d.den, is converted to:
\* the nearest one.
Float64(d) ==
    IF d.num = d.den
    THEN Float64One
    ELSE LET k == LeadingZeros(d.num, d.den) + FloatBits + 1
             sticky == IF DecimalRest(d.num, d.den, k) # 0 THEN 1 ELSE 0
         IN  Float64Round(DecimalBits(d.num, d.den, k) \o <<sticky>>, 0 - (k + 1))

\* 1.0 - t in float64, for 0 < t < 1.
Float64OneMinus(t) ==
    LET one == <<1>> \o Zeros(0 - t.e)
    IN  Float64Round(BitsSub(one, Value(PadTo(t.m, Len(one)))), t.e)

\* a / b in float64.
Float64Div(a, b) ==
    LET d == Value(BitsDiv(a.m \o Zeros(FloatBits + 1), b.m))
        sticky == IF \E i \in 1..Len(d.r) : d.r[i] = 1 THEN 1 ELSE 0
    IN  Float64Round(d.q \o <<sticky>>, a.e - b.e - (FloatBits + 1) - 1)

\* int(x): x without its fraction.
Float64ToInt(x) ==
    IF x.e >= 0
    THEN BitsToInt(x.m \o Zeros(x.e))
    ELSE IF FloatBits + x.e <= 0 THEN 0
    ELSE BitsToInt(SubSeq(x.m, 1, FloatBits + x.e))

\* computeQ without the floor of 1.
computeQ_noFloor(threshold) ==
    IF threshold = Float64One
    THEN QAtOne
    ELSE Float64ToInt(Value(Float64Div(Value(threshold),
                                       Value(Float64OneMinus(threshold)))))

\* threshold is a float64 with 0 < threshold <= 1.
computeQ(threshold) ==
    IF threshold = Float64One
    THEN QAtOne
    ELSE max(1, Float64ToInt(Value(Float64Div(Value(threshold),
                                              Value(Float64OneMinus(threshold))))))

-----------------------------------------------------------------------------
(* Documents *)

\* The tokenizer is a collaborator: it returns tokens whose Index values are
\* the ordinals 0, 1, ... and whose Line values start at 1.  Here the first
\* token stands alone on line 1 and the later lines hold two tokens each.
MkToken(texts, i) ==
    [Text |-> texts[i], Index |-> i - 1, Line |-> 1 + (i \div 2), Previous |-> << >>]

MkDocument(texts) == [Tokens |-> [i \in 1..Len(texts) |-> MkToken(texts, i)]]

TextSeqs == UNION { [1..n -> TokenTexts] : n \in 0..MaxDocLen }

tokenize == { MkDocument(texts) : texts \in TextSeqs }

size(id) == Len(id.Tokens)

\* normalized writing the space after every token, the last one included.
RECURSIVE normalizedUpTo_trailingSpace(_, _, _)
normalizedUpTo_trailingSpace(id, dict, k) ==
    IF k = 0
    THEN << >>
    ELSE normalizedUpTo_trailingSpace(id, dict, k - 1)
             \o getWord(dict, id.Tokens[k].ID)
             \o <<" ">>

\* normalized after the loop body has run for the first k tokens.
RECURSIVE normalizedUpTo(_, _, _)
normalizedUpTo(id, dict, k) ==
    IF k = 0
    THEN << >>
    ELSE normalizedUpTo(id, dict, k - 1)
             \o getWord(dict, id.Tokens[k].ID)
             \o (IF k # size(id) THEN <<" ">> ELSE << >>)

normalized(id, dict) == normalizedUpTo(id, dict, size(id))

\* The frequency table of a document: how often each identifier occurs.
generateFrequencies(id) ==
    [id EXCEPT !.f =
        Ptr([t \in { id.Tokens[i].ID : i \in 1..size(id) } |->
                Cardinality({ i \in 1..size(id) : id.Tokens[i].ID = t })])]

\* The search set of a document for a given q; its q-grams are the search
\* collaborator's business, its q and its origin are set here.
newSearchSet(id, q) == [q |-> q, origin |-> << >>]

generateSearchSet(id, q) == [id EXCEPT !.s = Ptr(newSearchSet(id, q))]

\* One rune per token of the range [lo, hi).
diffWordsToRunes(id, lo, hi) == [i \in 1..(hi - lo) |-> id.Tokens[lo + i].ID]

\* The loop leaving the Line of the indexed tokens at its zero value.
RECURSIVE indexTokens_noLine(_, _, _, _)
indexTokens_noLine(dict, d, addWords, k) ==
    IF k = 0
    THEN [dict |-> dict, Tokens |-> << >>]
    ELSE LET prev == indexTokens_noLine(dict, d, addWords, k - 1)
             t == d.Tokens[k]
             added == add(prev.dict, t.Text)
             tokID == IF addWords THEN added.idx ELSE getIndex(prev.dict, t.Text)
         IN  [dict |-> IF addWords THEN added.dict ELSE prev.dict,
              Tokens |-> Append(prev.Tokens,
                                [Index |-> t.Index, Line |-> 0, ID |-> tokID])]

\* The loop taking the identifier from a lookup made before the add.
RECURSIVE indexTokens_lookupFirst(_, _, _, _)
indexTokens_lookupFirst(dict, d, addWords, k) ==
    IF k = 0
    THEN [dict |-> dict, Tokens |-> << >>]
    ELSE LET prev == indexTokens_lookupFirst(dict, d, addWords, k - 1)
             t == d.Tokens[k]
             added == add(prev.dict, t.Text)
             tokID == getIndex(prev.dict, t.Text)
         IN  [dict |-> IF addWords THEN added.dict ELSE prev.dict,
              Tokens |-> Append(prev.Tokens,
                                [Index |-> t.Index, Line |-> t.Line, ID |-> tokID])]

\* The loop of generateIndexedDocument after its body has run for the first
\* k tokens of d: the dictionary it leaves and the tokens appended so far.
RECURSIVE indexTokens(_, _, _, _)
indexTokens(dict, d, addWords, k) ==
    IF k = 0
    THEN [dict |-> dict, Tokens |-> << >>]
    ELSE LET prev == indexTokens(dict, d, addWords, k - 1)
             t == d.Tokens[k]
             added == add(prev.dict, t.Text)
             tokID == IF addWords THEN added.idx ELSE getIndex(prev.dict, t.Text)
         IN  [dict |-> IF addWords THEN added.dict ELSE prev.dict,
              Tokens |-> Append(prev.Tokens,
                                [Index |-> t.Index, Line |-> t.Line, ID |-> tokID])]

\* generateIndexedDocument without its call of generateFrequencies.
generateIndexedDocument_noFrequencies(dict, d, addWords) ==
    LET loop == indexTokens(dict, d, addWords, Len(d.Tokens))
        id0 == [Tokens |-> loop.Tokens, f |-> nil, s |-> nil,
                runes |-> << >>, norm |-> << >>]
        id2 == [id0 EXCEPT !.runes = diffWordsToRunes(id0, 0, size(id0))]
        id3 == [id2 EXCEPT !.norm = normalized(id2, loop.dict)]
    IN  [dict |-> loop.dict, id |-> id3]

\* generateIndexedDocument returns the document and the dictionary it leaves.
generateIndexedDocument(dict, d, addWords) ==
    LET loop == indexTokens(dict, d, addWords, Len(d.Tokens))
        id0 == [Tokens |-> loop.Tokens, f |-> nil, s |-> nil,
                runes |-> << >>, norm |-> << >>]
        id1 == generateFrequencies(id0)
        id2 == [id1 EXCEPT !.runes = diffWordsToRunes(id1, 0, size(id1))]
        id3 == [id2 EXCEPT !.norm = normalized(id2, loop.dict)]
    IN  [dict |-> loop.dict, id |-> id3]

\* History of the calls of add made while d is indexed in grow mode into id:
\* the k-th call is made for the k-th token and its result is that token's ID.
RECURSIVE SeenAll(_, _, _, _)
SeenAll(seq, d, id, k) ==
    IF k = 0
    THEN seq
    ELSE Seen(SeenAll(seq, d, id, k - 1), d.Tokens[k].Text, id.Tokens[k].ID)

-----------------------------------------------------------------------------
(* Classifier *)

PathSeparator == "/"

\* generateDocName joining the three strings without the separators.
generateDocName_noSeparator(category, name, variant) ==
    Concat(<< category, name, variant >>)

generateDocName(category, name, variant) ==
    Concat(<< category, <<PathSeparator>>, name, <<PathSeparator>>, variant >>)

\* addDocument without the assignment of the search set's origin.
addDocument_noOrigin(dict, docs, q, category, name, variant, doc) ==
    LET indexName == generateDocName(category, name, variant)
        gen == generateIndexedDocument(dict, doc, TRUE)
        id1 == generateFrequencies(gen.id)
        id2 == generateSearchSet(id1, q)
    IN  [dict |-> gen.dict, docs |-> MapPut(docs, indexName, Ptr(id2))]

\* addDocument keeping the entry a document name already has.
addDocument_keepFirst(dict, docs, q, category, name, variant, doc) ==
    LET indexName == generateDocName(category, name, variant)
        gen == generateIndexedDocument(dict, doc, TRUE)
        id1 == generateFrequencies(gen.id)
        id2 == generateSearchSet(id1, q)
        id3 == [id2 EXCEPT !.s = Ptr([Deref(id2.s) EXCEPT !.origin = indexName])]
    IN  [dict |-> gen.dict,
         docs |-> IF indexName \in DOMAIN docs
                  THEN docs
                  ELSE MapPut(docs, indexName, Ptr(id3))]

\* addDocument returns the dictionary and the registry it leaves.
addDocument(dict, docs, q, category, name, variant, doc) ==
    LET indexName == generateDocName(category, name, variant)
        gen == generateIndexedDocument(dict, doc, TRUE)
        id1 == generateFrequencies(gen.id)
        id2 == generateSearchSet(id1, q)
        id3 == [id2 EXCEPT !.s = Ptr([Deref(id2.s) EXCEPT !.origin = indexName])]
    IN  [dict |-> gen.dict, docs |-> MapPut(docs, indexName, Ptr(id3))]

\* createTargetIndexedDocument passing addWords = true.
createTargetIndexedDocument_grow(dict, doc) == generateIndexedDocument(dict, doc, TRUE)

createTargetIndexedDocument(dict, doc) == generateIndexedDocument(dict, doc, FALSE)

getIndexedDocument(docs, category, name, variant) ==
    IF generateDocName(category, name, variant) \in DOMAIN docs
    THEN docs[generateDocName(category, name, variant)]
    ELSE nil

-----------------------------------------------------------------------------
(* The calls a session makes, in any order *)

Init ==
    /\ Dict = newDictionary
    /\ Docs = EmptyMap
    /\ Q = computeQ(Float64(SessionThreshold))
    /\ ret = [op |-> "new"]
    /\ firstSeen = << >>
    /\ nops = 0
    /\ calls = NoCalls
    /\ built = << >>

\* AddContent(category, name, variant, content): tokenize, then addDocument.
AddContent ==
    /\ nops < MaxOps
    /\ \E tr \in Triples, doc \in tokenize :
          \E r \in {addDocument(Dict, Docs, Q, tr[1], tr[2], tr[3], doc)},
             grown \in {indexTokens(Dict, doc, TRUE, Len(doc.Tokens))} :
              /\ Dict' = r.dict
              /\ Docs' = r.docs
              /\ ret' = [op |-> "AddContent", category |-> tr[1], name |-> tr[2],
                         variant |-> tr[3], doc |-> doc]
              /\ firstSeen' = SeenAll(firstSeen, doc, grown, Len(doc.Tokens))
    /\ nops' = nops + 1
    /\ UNCHANGED <<Q, calls, built>>

\* createTargetIndexedDocument(in): tokenize, then index in resolve mode.
CreateTarget ==
    /\ nops < MaxOps
    /\ \E doc \in tokenize :
          \E r \in {createTargetIndexedDocument(Dict, doc)} :
              /\ Dict' = r.dict
              /\ ret' = [op |-> "createTargetIndexedDocument", doc |-> doc,
                         id |-> Ptr(r.id)]
    /\ nops' = nops + 1
    /\ UNCHANGED <<Docs, Q, firstSeen, calls, built>>

\* c.Dict.add(word)
DictionaryAdd ==
    /\ nops < MaxOps
    /\ \E word \in TokenTexts :
          \E r \in {add(Dict, word)} :
              /\ Dict' = r.dict
              /\ ret' = [op |-> "add", word |-> word, idx |-> r.idx]
              /\ firstSeen' = Seen(firstSeen, word, r.idx)
    /\ nops' = nops + 1
    /\ UNCHANGED <<Docs, Q, calls, built>>

\* c.Dict.getIndex(word)
DictionaryGetIndex ==
    /\ nops < MaxOps
    /\ \E word \in TokenTexts :
          ret' = [op |-> "getIndex", word |-> word, idx |-> getIndex(Dict, word)]
    /\ nops' = nops + 1
    /\ UNCHANGED <<Dict, Docs, Q, firstSeen, calls, built>>

\* c.Dict.getWord(index)
DictionaryGetWord ==
    /\ nops < MaxOps
    /\ \E index \in 0..(Cardinality(TokenTexts) + 1) :
          ret' = [op |-> "getWord", index |-> index, word |-> getWord(Dict, index)]
    /\ nops' = nops + 1
    /\ UNCHANGED <<Dict, Docs, Q, firstSeen, calls, built>>

\* c.getIndexedDocument(category, name, variant)
GetIndexedDocument ==
    /\ nops < MaxOps
    /\ \E tr \in Triples :
          ret' = [op |-> "getIndexedDocument", category |-> tr[1], name |-> tr[2],
                  variant |-> tr[3],
                  id |-> getIndexedDocument(Docs, tr[1], tr[2], tr[3])]
    /\ nops' = nops + 1
    /\ UNCHANGED <<Dict, Docs, Q, firstSeen, calls, built>>

Next ==
    \/ AddContent
    \/ CreateTarget
    \/ DictionaryAdd
    \/ DictionaryGetIndex
    \/ DictionaryGetWord
    \/ GetIndexedDocument

Spec == Init /\ [][Next]_vars

-----------------------------------------------------------------------------
(* The threshold-to-q policy on its own: a threshold is chosen, computeQ is *)
(* applied to it                                                            *)

InitQ ==
    /\ Dict = newDictionary
    /\ Docs = EmptyMap
    /\ Q = 0
    /\ \E threshold \in Thresholds : ret = [op |-> "threshold", threshold |-> threshold]
    /\ firstSeen = << >>
    /\ nops = 0
    /\ calls = NoCalls
    /\ built = << >>

ComputeQ ==
    /\ ret.op = "threshold"
    /\ \E t \in { Float64(ret.threshold) } :
          \E q \in { computeQ(t) } :
             /\ Q' = q
             /\ ret' = [op |-> "computeQ", threshold |-> ret.threshold,
                        t |-> t, result |-> q]
    /\ UNCHANGED <<Dict, Docs, firstSeen, nops, calls, built>>

NextQ == ComputeQ

SpecQ == InitQ /\ [][NextQ]_vars

-----------------------------------------------------------------------------
(* The end-to-end scenario: one corpus document is added to an empty        *)
(* classifier, then one target document is indexed                          *)

ScenarioDocuments ==
    { MkDocument(texts) : texts \in UNION { [1..n -> ScenarioTexts] : n \in 0..ScenarioLen } }

ScenarioAddContent ==
    /\ nops = 0
    /\ \E doc \in ScenarioDocuments :
          \E r \in {addDocument(Dict, Docs, Q, ScenarioTriple[1], ScenarioTriple[2],
                                 ScenarioTriple[3], doc)},
             grown \in {indexTokens(Dict, doc, TRUE, Len(doc.Tokens))} :
              /\ Dict' = r.dict
              /\ Docs' = r.docs
              /\ ret' = [op |-> "AddContent", category |-> ScenarioTriple[1],
                         name |-> ScenarioTriple[2], variant |-> ScenarioTriple[3],
                         doc |-> doc]
              /\ firstSeen' = SeenAll(firstSeen, doc, grown, Len(doc.Tokens))
    /\ nops' = 1
    /\ UNCHANGED <<Q, calls, built>>

ScenarioCreateTarget ==
    /\ nops = 1
    /\ \E doc \in ScenarioDocuments :
          \E r \in {createTargetIndexedDocument(Dict, doc)} :
              /\ Dict' = r.dict
              /\ ret' = [op |-> "createTargetIndexedDocument", doc |-> doc,
                         id |-> Ptr(r.id), corpus |-> ret.doc]
    /\ nops' = 2
    /\ UNCHANGED <<Docs, Q, firstSeen, calls, built>>

NextScenario == ScenarioAddContent \/ ScenarioCreateTarget

SpecScenario == Init /\ [][NextScenario]_vars

-----------------------------------------------------------------------------
(* Concurrent writers: each calls add once, and the statements of the calls *)
(* run in any order                                                         *)

\* The call of writer w moves to pc with its locals word and idx; the run is
\* interleaved once a writer steps while another one is in the body of add.
Step(w, pc, word, idx) ==
    [calls EXCEPT
        !.of[w] = [pc |-> pc, word |-> word, idx |-> idx],
        !.interleaved = @ \/ \E o \in Writers \ {w} : InBody(calls.of[o])]

\* if idx := d.getIndex(word); idx != unknownIndex { return idx }
AddGetIndex(w) ==
    /\ ~calls.fault
    /\ calls.of[w].pc = "idle"
    /\ \E word \in TokenTexts :
          IF getIndex(Dict, word) # unknownIndex
          THEN /\ calls' = Step(w, "done", word, getIndex(Dict, word))
               /\ ret' = [op |-> "add", word |-> word, idx |-> getIndex(Dict, word)]
          ELSE /\ calls' = Step(w, "len", word, unknownIndex)
               /\ ret' = ret
    /\ UNCHANGED <<Dict, Docs, Q, firstSeen, nops, built>>

\* idx := tokenID(len(d.Words) + 1)
AddLen(w) ==
    /\ ~calls.fault
    /\ calls.of[w].pc = "len"
    /\ calls' = Step(w, "words", calls.of[w].word, addLen(Dict))
    /\ UNCHANGED <<Dict, Docs, Q, ret, firstSeen, nops, built>>

\* d.Words[idx] = word
AddWords(w) ==
    /\ ~calls.fault
    /\ calls.of[w].pc = "words"
    /\ Dict' = addWordsEntry(Dict, calls.of[w].idx, calls.of[w].word)
    /\ calls' = Step(w, "indices", calls.of[w].word, calls.of[w].idx)
    /\ UNCHANGED <<Docs, Q, ret, firstSeen, nops, built>>

\* d.Indices[word] = idx; return idx
AddIndices(w) ==
    /\ ~calls.fault
    /\ calls.of[w].pc = "indices"
    /\ Dict' = addIndicesEntry(Dict, calls.of[w].idx, calls.of[w].word)
    /\ calls' = Step(w, "done", calls.of[w].word, calls.of[w].idx)
    /\ ret' = [op |-> "add", word |-> calls.of[w].word, idx |-> calls.of[w].idx]
    /\ UNCHANGED <<Docs, Q, firstSeen, nops, built>>

\* Two writers in the body of add, one of them about to write a map, race on
\* the maps: besides the orders of their statements, the Go runtime may stop
\* the program with "concurrent map writes".
MapFault ==
    /\ ~calls.fault
    /\ \E w \in Writers, o \in Writers :
          /\ w # o
          /\ calls.of[w].pc \in {"words", "indices"}
          /\ InBody(calls.of[o])
    /\ calls' = [calls EXCEPT !.fault = TRUE, !.interleaved = TRUE]
    /\ UNCHANGED <<Dict, Docs, Q, ret, firstSeen, nops, built>>

NextInterleaved ==
    \/ \E w \in Writers : AddGetIndex(w)
    \/ \E w \in Writers : AddLen(w)
    \/ \E w \in Writers : AddWords(w)
    \/ \E w \in Writers : AddIndices(w)
    \/ MapFault

SpecInterleaved == Init /\ [][NextInterleaved]_vars

-----------------------------------------------------------------------------
(* A caller that keeps the IndexedDocuments it was handed: corpus documents *)
(* are added and targets indexed, in any order, and every document built is *)
(* remembered as it was built                                               *)

KeptDocuments ==
    { MkDocument(texts) : texts \in UNION { [1..n -> KeptTexts] : n \in 0..MaxDocLen } }

KeepAddContent ==
    /\ Len(built) < MaxBuilt
    /\ \E tr \in Triples, doc \in KeptDocuments :
          \E r \in {addDocument(Dict, Docs, Q, tr[1], tr[2], tr[3], doc)},
             grown \in {indexTokens(Dict, doc, TRUE, Len(doc.Tokens))} :
              /\ Dict' = r.dict
              /\ Docs' = r.docs
              /\ ret' = [op |-> "AddContent", category |-> tr[1], name |-> tr[2],
                         variant |-> tr[3], doc |-> doc]
              /\ firstSeen' = SeenAll(firstSeen, doc, grown, Len(doc.Tokens))
              /\ built' = Append(built,
                     [doc |-> doc, addWords |-> TRUE, dict |-> r.dict,
                      id |-> Deref(r.docs[generateDocName(tr[1], tr[2], tr[3])])])
    /\ nops' = nops + 1
    /\ UNCHANGED <<Q, calls>>

KeepCreateTarget ==
    /\ Len(built) < MaxBuilt
    /\ \E doc \in KeptDocuments :
          \E r \in {createTargetIndexedDocument(Dict, doc)} :
              /\ Dict' = r.dict
              /\ ret' = [op |-> "createTargetIndexedDocument", doc |-> doc,
                         id |-> Ptr(r.id)]
              /\ built' = Append(built, [doc |-> doc, addWords |-> FALSE, dict |-> r.dict,
                                        id |-> r.id])
    /\ nops' = nops + 1
    /\ UNCHANGED <<Docs, Q, firstSeen, calls>>

NextKeep == KeepAddContent \/ KeepCreateTarget

SpecKeep == Init /\ [][NextKeep]_vars

-----------------------------------------------------------------------------
(* The registry: documents are added under triples and looked up by triple; *)
(* built remembers the triple of every addDocument                          *)

RegistryDocuments == { MkDocument(texts) : texts \in {<< >>} \cup { <<w>> : w \in KeptTexts } }

RegistryAddContent ==
    /\ Len(built) < MaxBuilt
    /\ \E tr \in RegistryTriples, doc \in RegistryDocuments :
          \E r \in {addDocument(Dict, Docs, Q, tr[1], tr[2], tr[3], doc)},
             grown \in {indexTokens(Dict, doc, TRUE, Len(doc.Tokens))} :
              /\ Dict' = r.dict
              /\ Docs' = r.docs
              /\ ret' = [op |-> "AddContent", category |-> tr[1], name |-> tr[2],
                         variant |-> tr[3], doc |-> doc]
              /\ firstSeen' = SeenAll(firstSeen, doc, grown, Len(doc.Tokens))
              /\ built' = Append(built,
                     [doc |-> doc, addWords |-> TRUE, dict |-> r.dict,
                      id |-> Deref(r.docs[generateDocName(tr[1], tr[2], tr[3])]),
                      triple |-> tr])
    /\ nops' = nops + 1
    /\ UNCHANGED <<Q, calls>>

RegistryLookup ==
    /\ \E tr \in RegistryTriples :
          ret' = [op |-> "getIndexedDocument", category |-> tr[1], name |-> tr[2],
                  variant |-> tr[3],
                  id |-> getIndexedDocument(Docs, tr[1], tr[2], tr[3])]
    /\ UNCHANGED <<Dict, Docs, Q, firstSeen, nops, calls, built>>

NextRegistry == RegistryAddContent \/ RegistryLookup

SpecRegistry == Init /\ [][NextRegistry]_vars

-----------------------------------------------------------------------------
(* Properties *)

DictSize == Cardinality(DOMAIN Dict.Words)

\* C1: Words and Indices are exact inverses of each other, they have the same
\* size n, and the identifiers assigned are exactly 1..n (never 0).
C1_WordsIndicesInverse ==
    /\ \A i \in DOMAIN Dict.Words :
          /\ Dict.Words[i] \in DOMAIN Dict.Indices
          /\ Dict.Indices[Dict.Words[i]] = i
    /\ \A w \in DOMAIN Dict.Indices :
          /\ Dict.Indices[w] \in DOMAIN Dict.Words
          /\ Dict.Words[Dict.Indices[w]] = w
    /\ Cardinality(DOMAIN Dict.Indices) = DictSize
    /\ DOMAIN Dict.Words = 1..DictSize
    /\ unknownIndex \notin DOMAIN Dict.Words

\* A dictionary of three words, the last of them added by grow-mode indexing.
C1_Witness ==
    /\ DictSize = 3
    /\ ret.op = "AddContent"
    /\ Len(ret.doc.Tokens) = 2

\* C2: the k-th distinct word passed to add receives identifier k, and no call
\* changes the identifier of a word, gives its identifier to another word or
\* removes the entry.
C2_FirstSeenOrder ==
    \A k \in 1..Len(firstSeen) :
        /\ firstSeen[k].idx = k
        /\ getIndex(Dict, firstSeen[k].word) = k
        /\ getWord(Dict, k) = firstSeen[k].word

C2_Stable ==
    \A w \in DOMAIN Dict.Indices :
        /\ w \in DOMAIN Dict'.Indices
        /\ Dict'.Indices[w] = Dict.Indices[w]
        /\ Dict.Indices[w] \in DOMAIN Dict'.Words
        /\ Dict'.Words[Dict.Indices[w]] = w

C2_FirstSeenStable == [][C2_Stable /\ C2_FirstSeenOrder']_vars

\* A second call has added a third word after the first call assigned identifiers.
C2_Witness ==
    /\ nops = 2
    /\ Len(firstSeen) = 3
    /\ ret.op \in {"add", "AddContent"}

\* C3: resolve-mode indexing changes neither the dictionary nor the registry,
\* whatever the document, words absent from the dictionary included.
C3_ResolveStep ==
    ret'.op = "createTargetIndexedDocument" => Dict' = Dict /\ Docs' = Docs

C3_ResolveNoMutation == [][C3_ResolveStep]_vars

\* A target with a word the non-empty dictionary does not hold was indexed.
C3_Witness ==
    /\ ret.op = "createTargetIndexedDocument"
    /\ DictSize > 0
    /\ \E i \in 1..Len(ret.doc.Tokens) :
          /\ ret.doc.Tokens[i].Text \notin DOMAIN Dict.Indices
          /\ Deref(ret.id).Tokens[i].ID = unknownIndex

\* The words passed to add so far, and the identifiers add returned for them.
SeenWords == { firstSeen[k].word : k \in 1..Len(firstSeen) }
SeenIds == { firstSeen[k].idx : k \in 1..Len(firstSeen) }

\* C4: when add(w) returns i, getIndex(w) returns i and getWord(i) returns w,
\* right after the call and after any later calls of add for other words.
C4_RoundTrip ==
    /\ ret.op = "add" =>
          /\ getIndex(Dict, ret.word) = ret.idx
          /\ getWord(Dict, ret.idx) = ret.word
    /\ \A k \in 1..Len(firstSeen) :
          /\ getIndex(Dict, firstSeen[k].word) = firstSeen[k].idx
          /\ getWord(Dict, firstSeen[k].idx) = firstSeen[k].word

\* add was called for a word after other words had been added before it.
C4_Witness ==
    /\ ret.op = "add"
    /\ ret.idx = 3
    /\ firstSeen[3].word = ret.word

\* The words of a document.
DocWords(doc) == { doc.Tokens[i].Text : i \in 1..Len(doc.Tokens) }

\* C5: a repeated add(w) returns the identifier the first call returned and
\* leaves the dictionary as it is; a batch of adds grows the dictionary by
\* exactly the number of its distinct words that were not present.
C5_Step ==
    /\ ret'.op = "add" =>
          /\ \A k \in 1..Len(firstSeen) :
                firstSeen[k].word = ret'.word =>
                    ret'.idx = firstSeen[k].idx /\ Dict' = Dict
          /\ Cardinality(DOMAIN Dict'.Words) =
                DictSize + Cardinality({ret'.word} \ DOMAIN Dict.Indices)
    /\ ret'.op = "AddContent" =>
          /\ Cardinality(DOMAIN Dict'.Words) =
                DictSize + Cardinality(DocWords(ret'.doc) \ DOMAIN Dict.Indices)
          /\ \A id \in {Deref(Docs'[generateDocName(ret'.category, ret'.name,
                                                       ret'.variant)])} :
                 \A i \in 1..Len(ret'.doc.Tokens) :
                     \A k \in 1..Len(firstSeen') :
                         firstSeen'[k].word = ret'.doc.Tokens[i].Text =>
                             id.Tokens[i].ID = firstSeen'[k].idx

C5_AddStable == [][C5_Step]_vars

\* add was called again for the first word, after a second word had been added.
C5_Witness ==
    /\ ret.op = "add"
    /\ ret.idx = 1
    /\ DictSize = 2

\* C6: getIndex of a word never added returns 0, getWord of 0 and of any
\* identifier never assigned returns "UNKNOWN", add never returns 0, and the
\* lookups leave the dictionary as it is.
C6_Sentinels ==
    /\ \A w \in TokenTexts \ SeenWords : getIndex(Dict, w) = unknownIndex
    /\ \A i \in (0..(Cardinality(TokenTexts) + 1)) \ SeenIds :
          getWord(Dict, i) = unknownWord
    /\ getWord(Dict, 0) = unknownWord
    /\ 0 \notin SeenIds
    /\ ret.op = "add" => ret.idx # 0
    /\ ret.op = "getIndex" /\ ret.word \notin SeenWords => ret.idx = 0
    /\ ret.op = "getWord" /\ (ret.index = 0 \/ ret.index \notin SeenIds) =>
          ret.word = unknownWord

C6_LookupStep ==
    ret'.op \in {"getIndex", "getWord"} => Dict' = Dict /\ Docs' = Docs

C6_SentinelCorrect == [][C6_Sentinels' /\ C6_LookupStep]_vars

\* getWord was called with an identifier beyond those of a non-empty dictionary.
C6_Witness ==
    /\ ret.op = "getWord"
    /\ DictSize > 0
    /\ ret.index > DictSize
    /\ ret.word = unknownWord

\* C7: after a document is indexed in grow mode, each of its words has an
\* identifier other than 0, each token of the IndexedDocument has ID # 0, and
\* getWord(ID) is the text of the token.
C7_GrowComplete ==
    ret.op = "AddContent" =>
        \A p \in {getIndexedDocument(Docs, ret.category, ret.name, ret.variant)} :
            /\ p # nil
            /\ size(Deref(p)) = Len(ret.doc.Tokens)
            /\ \A w \in DocWords(ret.doc) : getIndex(Dict, w) # unknownIndex
            /\ \A i \in 1..Len(ret.doc.Tokens) :
                  /\ Deref(p).Tokens[i].ID # unknownIndex
                  /\ getWord(Dict, Deref(p).Tokens[i].ID) = ret.doc.Tokens[i].Text

\* A document of two words, both new to the dictionary, was added.
C7_Witness ==
    /\ ret.op = "AddContent"
    /\ nops = 1
    /\ Cardinality(DocWords(ret.doc)) = 2
    /\ DictSize = 2

TokenIDs(tokens) == [i \in 1..Len(tokens) |-> tokens[i].ID]

\* C9: after addDocument(category, name, variant, doc) the lookup with the
\* same triple returns a document whose identifiers are those of grow-mode
\* indexing of doc; under a name that had an entry the new document takes
\* the place of the old one.
C9_Step ==
    ret'.op = "AddContent" =>
        \A key \in {generateDocName(ret'.category, ret'.name, ret'.variant)},
           p \in {getIndexedDocument(Docs', ret'.category, ret'.name, ret'.variant)},
           grown \in {indexTokens(Dict, ret'.doc, TRUE, Len(ret'.doc.Tokens)).Tokens} :
            /\ p # nil
            /\ TokenIDs(Deref(p).Tokens) = TokenIDs(grown)
            /\ \A i \in 1..Len(ret'.doc.Tokens) :
                  Deref(p).Tokens[i].ID = getIndex(Dict', ret'.doc.Tokens[i].Text)
            /\ size(Deref(p)) = Len(ret'.doc.Tokens)
            /\ DOMAIN Docs' = (DOMAIN Docs) \cup {key}
            /\ \A tr \in Triples :
                  generateDocName(tr[1], tr[2], tr[3]) = key =>
                      getIndexedDocument(Docs', tr[1], tr[2], tr[3]) = p

C9_AddThenLookup == [][C9_Step]_vars

\* An empty document was added under the name that held a two-word document.
C9_Witness ==
    /\ ret.op = "AddContent"
    /\ nops = 2
    /\ DictSize = 2
    /\ Len(ret.doc.Tokens) = 0
    /\ Cardinality(DOMAIN Docs) = 1

\* Words joined by one space.
RECURSIVE JoinWords(_)
JoinWords(ws) ==
    IF ws = << >> THEN << >>
    ELSE IF Len(ws) = 1 THEN ws[1]
    ELSE ws[1] \o <<" ">> \o JoinWords(Tail(ws))

Spaces(str) == Cardinality({ i \in 1..Len(str) : str[i] = " " })

NormShape(id) ==
    LET ws == [i \in 1..size(id) |-> getWord(Dict, id.Tokens[i].ID)]
    IN  /\ id.norm = JoinWords(ws)
        /\ normalized(id, Dict) = JoinWords(ws)
        /\ size(id) = 0 => id.norm = << >>
        /\ size(id) >= 1 =>
              /\ Spaces(id.norm) = size(id) - 1
              /\ Len(id.norm) > 0
              /\ id.norm[1] # " "
              /\ id.norm[Len(id.norm)] # " "
              /\ \A i \in 1..(Len(id.norm) - 1) :
                    ~(id.norm[i] = " " /\ id.norm[i + 1] = " ")

\* C10: the normalized string is the dictionary words of the tokens, in
\* order, joined by one space, 0 being rendered as "UNKNOWN"; it is empty
\* for the empty document, and for tokenCount >= 1 tokens it has exactly
\* tokenCount - 1 spaces, none leading, trailing or doubled.
C10_NormalizedShape ==
    /\ ret.op = "createTargetIndexedDocument" => NormShape(Deref(ret.id))
    /\ \A key \in DOMAIN Docs : NormShape(Deref(Docs[key]))

\* A target of a known and an unknown word was indexed.
C10_Witness ==
    /\ ret.op = "createTargetIndexedDocument"
    /\ size(Deref(ret.id)) = 2
    /\ Deref(ret.id).Tokens[1].ID # unknownIndex
    /\ Deref(ret.id).Tokens[2].ID = unknownIndex
    /\ Deref(ret.id).norm = getWord(Dict, 1) \o <<" ">> \o unknownWord

\* floor(t / (1 - t)) for the float64 t = m * 2^e, 0 < t < 1, computed on
\* the integers m and 2^(-e) - m without rounding.
ExactRatioFloor(t) ==
    LET one == <<1>> \o Zeros(0 - t.e)
        m == PadTo(t.m, Len(one))
    IN  BitsToInt(StripZeros(BitsDiv(m, BitsSub(one, m)).q))

\* C11: computeQ(1.0) = 10; for every threshold t with 0 < t < 1,
\* computeQ(t) = max(1, floor(t / (1 - t))), so that computeQ(0.8) = 4,
\* computeQ(0.5) = 1 and computeQ(0.3) = 1; the result is at least 1 for
\* every threshold in (0, 1].
C11_QPolicy ==
    ret.op = "computeQ" =>
       /\ Q = ret.result
       /\ ret.threshold.num = ret.threshold.den => ret.result = 10
       /\ ret.threshold.num < ret.threshold.den =>
             ret.result = max(1, ExactRatioFloor(ret.t))
       /\ ret.threshold = [num |-> 8, den |-> 10] => ret.result = 4
       /\ ret.threshold = [num |-> 5, den |-> 10] => ret.result = 1
       /\ ret.threshold = [num |-> 3, den |-> 10] => ret.result = 1
       /\ ret.result >= 1

\* computeQ was applied to 0.8 and gave 4.
C11_Witness ==
    /\ ret.op = "computeQ"
    /\ ret.threshold = [num |-> 8, den |-> 10]
    /\ ret.result = 4
    /\ Q = 4

ScenarioKey == <<"l", "i", "c", "/", "m", "i", "t", "/">>
ScenarioDict ==
    [Words |-> (1 :> <<"a">>) @@ (2 :> <<"b">>),
     Indices |-> (<<"a">> :> 1) @@ (<<"b">> :> 2)]
ScenarioCorpus == MkDocument(<< <<"a">>, <<"b">>, <<"a">> >>)
ScenarioTarget == MkDocument(<< <<"a">>, <<"c">> >>)

ScenarioStored ==
    /\ Dict = ScenarioDict
    /\ DOMAIN Docs = {ScenarioKey}
    /\ TokenIDs(Deref(Docs[ScenarioKey]).Tokens) = <<1, 2, 1>>
    /\ Deref(Docs[ScenarioKey]).norm = <<"a", " ", "b", " ", "a">>

\* C12: adding the document "a b a" under ("lic", "mit", "") to an empty
\* classifier leaves the dictionary {a -> 1, b -> 2} and a stored document
\* with identifiers [1, 2, 1] and normalized text "a b a"; indexing the
\* target "a c" then gives identifiers [1, 0] and normalized text
\* "a UNKNOWN" and leaves the dictionary {a -> 1, b -> 2}.
C12_Scenario ==
    /\ (ret.op = "AddContent" /\ ret.doc = ScenarioCorpus) => ScenarioStored
    /\ (/\ ret.op = "createTargetIndexedDocument"
        /\ ret.corpus = ScenarioCorpus
        /\ ret.doc = ScenarioTarget) =>
          /\ TokenIDs(Deref(ret.id).Tokens) = <<1, 0>>
          /\ Deref(ret.id).norm = <<"a", " ">> \o <<"U", "N", "K", "N", "O", "W", "N">>
          /\ ScenarioStored

\* The scenario ran to its end.
C12_Witness ==
    /\ nops = 2
    /\ ret.op = "createTargetIndexedDocument"
    /\ ret.corpus = ScenarioCorpus
    /\ ret.doc = ScenarioTarget
    /\ TokenIDs(Deref(ret.id).Tokens) = <<1, 0>>
    /\ Dict = ScenarioDict

\* Words and Indices of the dictionary are exact inverses.
Inverse ==
    /\ \A i \in DOMAIN Dict.Words :
          Dict.Words[i] \in DOMAIN Dict.Indices /\ Dict.Indices[Dict.Words[i]] = i
    /\ \A w \in DOMAIN Dict.Indices :
          Dict.Indices[w] \in DOMAIN Dict.Words /\ Dict.Words[Dict.Indices[w]] = w

\* Two calls for distinct words hold the same new identifier.
SameIdentifier ==
    \E w \in Writers, o \in Writers :
       /\ w # o
       /\ calls.of[w].word # calls.of[o].word
       /\ calls.of[w].pc \in {"indices", "done"}
       /\ calls.of[o].pc \in {"indices", "done"}
       /\ calls.of[w].idx = calls.of[o].idx

\* C13: add is not atomic.  As long as no writer has taken a step while
\* another was in the body of add, no two distinct words receive the same
\* identifier, and Words and Indices are exact inverses whenever no call is
\* in the body of add.  The witness is the state interleaved calls reach:
\* two distinct words with one identifier, Words and Indices not inverse.
C13_SerializedAdd ==
    ~calls.interleaved =>
       /\ ~SameIdentifier
       /\ (\A w \in Writers : ~InBody(calls.of[w])) => Inverse
       /\ \A w \in Writers :
             calls.of[w].pc = "done" =>
                /\ calls.of[w].word \in DOMAIN Dict.Indices
                /\ Dict.Indices[calls.of[w].word] = calls.of[w].idx

\* Two interleaved calls for distinct, absent words have both returned the
\* same identifier, and Words and Indices are not inverse.
C13_Witness ==
    /\ calls.interleaved
    /\ ~calls.fault
    /\ \A w \in Writers : calls.of[w].pc = "done"
    /\ SameIdentifier
    /\ ~Inverse

\* id has as many tokens as d, each with the Index and Line of d's token at
\* the same position.
SameMetadata(d, id) ==
    /\ size(id) = Len(d.Tokens)
    /\ \A i \in 1..Len(d.Tokens) :
          /\ id.Tokens[i].Index = d.Tokens[i].Index
          /\ id.Tokens[i].Line = d.Tokens[i].Line

\* C14: the IndexedDocument has exactly as many tokens as the Document, and
\* its i-th token has the Index and Line of the Document's i-th token, in grow
\* mode and in resolve mode; in resolve mode its ID is the dictionary's
\* identifier of the token's text if the text is in the dictionary and 0
\* otherwise.
C14_MetadataPreserved ==
    /\ ret.op = "AddContent" =>
          SameMetadata(ret.doc,
                       Deref(Docs[generateDocName(ret.category, ret.name, ret.variant)]))
    /\ ret.op = "createTargetIndexedDocument" =>
          /\ SameMetadata(ret.doc, Deref(ret.id))
          /\ \A i \in 1..Len(ret.doc.Tokens) :
                Deref(ret.id).Tokens[i].ID =
                   IF ret.doc.Tokens[i].Text \in DOMAIN Dict.Indices
                   THEN Dict.Indices[ret.doc.Tokens[i].Text]
                   ELSE 0

\* A target of two words the dictionary does not hold, on two lines, next to
\* a dictionary that holds another word: both resolve to 0.
C14_Witness ==
    /\ ret.op = "createTargetIndexedDocument"
    /\ DictSize >= 1
    /\ size(Deref(ret.id)) = 2
    /\ ret.doc.Tokens[1].Text # ret.doc.Tokens[2].Text
    /\ Deref(ret.id).Tokens[1].ID = 0
    /\ Deref(ret.id).Tokens[2].ID = 0
    /\ Deref(ret.id).Tokens[1].Line # Deref(ret.id).Tokens[2].Line
    /\ Deref(ret.id).Tokens[2].Index = 1

\* C15: every entry of Docs has a frequency table and a search set, the
\* search set was built with the Q of the classifier, and its origin is the
\* key of the entry: category, separator, name, separator, variant of the
\* call that stored it.
C15_StoredPrepared ==
    /\ \A key \in DOMAIN Docs :
          /\ Docs[key] # nil
          /\ Deref(Docs[key]).f # nil
          /\ Deref(Docs[key]).s # nil
          /\ Deref(Deref(Docs[key]).s).q = Q
          /\ Deref(Deref(Docs[key]).s).origin = key
          /\ \E tr \in Triples :
                key = tr[1] \o <<"/">> \o tr[2] \o <<"/">> \o tr[3]
    /\ ret.op = "AddContent" =>
          \A key \in {ret.category \o <<"/">> \o ret.name \o <<"/">> \o ret.variant} :
              /\ key \in DOMAIN Docs
              /\ Deref(Deref(Docs[key]).s).origin = key

\* Two documents are stored, each with its own origin.
C15_Witness ==
    /\ Cardinality(DOMAIN Docs) = 2
    /\ \A key \in DOMAIN Docs :
          Deref(Deref(Docs[key]).s).origin = key /\ Deref(Deref(Docs[key]).s).q = Q
    /\ \E key \in DOMAIN Docs : size(Deref(Docs[key])) = 2

\* The dictionary the k-th construction started from.
DictBefore(k) == IF k = 1 THEN newDictionary ELSE built[k - 1].dict

SameIndexing(id1, id2) ==
    /\ TokenIDs(id1.Tokens) = TokenIDs(id2.Tokens)
    /\ id1.norm = id2.norm

\* C16: indexing the same Document twice against the same dictionary state
\* gives the same identifiers and the same normalized string; a second
\* grow-mode indexing of a Document adds no dictionary entry and returns the
\* identifiers of the first, and resolve-mode indexing of a Document indexed
\* in grow mode before returns the identifiers of the grow-mode result.
C16_IndexingIdempotent ==
    /\ \A i \in 1..Len(built), j \in 1..Len(built) :
          (i < j /\ built[i].doc = built[j].doc) =>
             /\ (DictBefore(i) = DictBefore(j) /\ built[i].addWords = built[j].addWords) =>
                   SameIndexing(built[i].id, built[j].id)
             /\ built[i].addWords =>
                   /\ SameIndexing(built[i].id, built[j].id)
                   /\ built[j].dict = DictBefore(j)
    /\ \A i \in 1..Len(built) :
          built[i].addWords =>
             \A grown \in {generateIndexedDocument(Dict, built[i].doc, TRUE)},
                resolved \in {generateIndexedDocument(Dict, built[i].doc, FALSE)} :
                 /\ grown.dict = Dict
                 /\ SameIndexing(grown.id, built[i].id)
                 /\ resolved.dict = Dict
                 /\ SameIndexing(resolved.id, built[i].id)

\* A Document of two words was indexed in grow mode and then in resolve
\* mode.
C16_Witness ==
    /\ Len(built) = 2
    /\ built[1].doc = built[2].doc
    /\ built[1].addWords
    /\ ~built[2].addWords
    /\ TokenIDs(built[1].id.Tokens) = <<1, 2>>
    /\ TokenIDs(built[2].id.Tokens) = <<1, 2>>

\* C17: for every IndexedDocument built, corpus or target, and after every
\* later call, the norm cached at construction equals normalized() computed
\* from its tokens against the dictionary as it is now; a token resolved to
\* 0 is rendered as "UNKNOWN" also after its word was added.
C17_NormNotStale ==
    \A i \in 1..Len(built) :
       /\ built[i].id.norm = normalized(built[i].id, Dict)
       /\ \A k \in 1..size(built[i].id) :
             built[i].id.Tokens[k].ID = unknownIndex =>
                getWord(Dict, built[i].id.Tokens[k].ID) = unknownWord

\* A target of two unseen words was indexed, then a corpus document added
\* both words to the dictionary.
C17_Witness ==
    /\ Len(built) = 2
    /\ ~built[1].addWords
    /\ built[2].addWords
    /\ size(built[1].id) = 2
    /\ TokenIDs(built[1].id.Tokens) = <<0, 0>>
    /\ \A k \in 1..2 : built[1].doc.Tokens[k].Text \in DOMAIN Dict.Indices
    /\ built[1].id.norm = unknownWord \o <<" ">> \o unknownWord
    /\ DictSize = 2

C18_Step ==
    /\ (ret'.op = "getIndexedDocument" /\ ret'.id # nil) =>
          \E i \in 1..Len(built') :
             built'[i].triple = <<ret'.category, ret'.name, ret'.variant>>
    /\ (ret'.op = "AddContent" /\ built' # built) =>
          \A tr \in RegistryTriples :
             tr # <<ret'.category, ret'.name, ret'.variant>> =>
                getIndexedDocument(Docs', tr[1], tr[2], tr[3])
                   = getIndexedDocument(Docs, tr[1], tr[2], tr[3])

\* C18 as claimed: the lookup of a triple returns a document only if addDocument was
\* called with exactly that triple before, and addDocument for one triple
\* does not change what the lookup of any other triple returns, also for
\* strings that hold the path separator or are empty.
C18_TripleIsolation == [][C18_Step]_vars

\* The string a triple is stored under: category, separator, name,
\* separator, variant.
NameOf(tr) == tr[1] \o <<"/">> \o tr[2] \o <<"/">> \o tr[3]

\* Neither category nor name of the triple holds the separator.
SeparatorFree(tr) == \A k \in 1..2 : \A i \in 1..Len(tr[k]) : tr[k][i] # "/"

C18_NameStep ==
    /\ (ret'.op = "getIndexedDocument" /\ ret'.id # nil) =>
          \E i \in 1..Len(built') :
             NameOf(built'[i].triple) = NameOf(<<ret'.category, ret'.name, ret'.variant>>)
    /\ (ret'.op = "AddContent" /\ built' # built) =>
          \A tr \in RegistryTriples, added \in {<<ret'.category, ret'.name, ret'.variant>>} :
             /\ NameOf(tr) # NameOf(added) =>
                   getIndexedDocument(Docs', tr[1], tr[2], tr[3])
                      = getIndexedDocument(Docs, tr[1], tr[2], tr[3])
             /\ NameOf(tr) = NameOf(added) =>
                   getIndexedDocument(Docs', tr[1], tr[2], tr[3])
                      = getIndexedDocument(Docs', added[1], added[2], added[3])
             /\ (tr # added /\ SeparatorFree(tr) /\ SeparatorFree(added)) =>
                   getIndexedDocument(Docs', tr[1], tr[2], tr[3])
                      = getIndexedDocument(Docs, tr[1], tr[2], tr[3])

\* C18 as amended: the registry is keyed by the string category, separator,
\* name, separator, variant.  The lookup of a triple returns a document only
\* if addDocument was called before with a triple of the same string, and
\* addDocument for one triple does not change what the lookup of a triple of
\* a different string returns; triples of one string share one entry.  Two
\* different triples whose categories and names hold no separator never
\* share an entry.
C18_NameIsolation == [][C18_NameStep]_vars

\* A document was added under ("l/m", "", "") only, and the lookup of
\* ("l", "m/", "") returned it.
C18_Witness ==
    /\ ret.op = "getIndexedDocument"
    /\ <<ret.category, ret.name, ret.variant>> = << <<"l">>, <<"m", "/">>, << >> >>
    /\ ret.id # nil
    /\ Len(built) = 1
    /\ built[1].triple = << <<"l", "/", "m">>, << >>, << >> >>
    /\ size(Deref(ret.id)) = 1

====
